---- MODULE Spec2Model ----
(***************************************************************************)
(* Model of the SpeedReader native boundary layer:                         *)
(*   - speedreader_ort.c    : environment / session lifecycle and run      *)
(*   - speedreader_cpuinfo.c: selection of the optimal CPU list            *)
(* The inference engine (ONNX Runtime) and the topology library (cpuinfo)  *)
(* are external; their calls either succeed or fail, chosen as an input.   *)
(***************************************************************************)
EXTENDS Integers, Sequences, FiniteSets, TLC

(***************************************************************************)
(* Program constants                                                       *)
(***************************************************************************)
SPEEDREADER_ORT_ERROR_BUF_SIZE == 256
SPEEDREADER_ORT_MAX_SHAPE_DIMS == 16

\* status codes of the implementation (Src/Native header)
SPEEDREADER_ORT_OK == "OK"
SPEEDREADER_ORT_ERROR == "ERROR"
\* status codes the buffer-protocol header declares (native header)
SPEEDREADER_ORT_INVALID_ARGUMENT == "INVALID_ARGUMENT"
SPEEDREADER_ORT_TRUNCATED == "TRUNCATED"
\* no status: the call did not return (it faulted)
NoStatus == "NONE"

(***************************************************************************)
(* Bounds of the model                                                     *)
(***************************************************************************)
MaxDim == 2        \* largest leading dimension of an output tensor
MaxInput == 2      \* number of distinct input tensors
LongMsg == 300     \* length of a long engine diagnostic

MaxCount == MaxDim + 1   \* largest output_count a caller passes

Min(a, b) == IF a < b THEN a ELSE b

RECURSIVE Product(_)
Product(s) == IF Len(s) = 0 THEN 1 ELSE Head(s) * Product(Tail(s))

RECURSIVE Digits(_)
\* number of characters "%zu" / "%d" prints for n >= 0
Digits(n) == IF n < 10 THEN 1 ELSE 1 + Digits(n \div 10)

(***************************************************************************)
(* Diagnostic messages: the text is abstracted to an identifier, the two   *)
(* numbers formatted into it, and its length in characters.                *)
(***************************************************************************)
Msg(id, a, b, len) == [id |-> id, a |-> a, b |-> b, len |-> len]
EmptyText == Msg("", 0, 0, 0)

\* the message of an engine OrtStatus (GetErrorMessage), of length len
OrtMessage(len) == Msg("engine diagnostic", 0, 0, len)

VARIABLES
    api,        \* get_api's static: TRUE once the function table is cached
    env,        \* caller's SpeedReaderOrtEnv*: 0 = NULL, 1 = a live environment
    session,    \* caller's SpeedReaderOrtSession*: rank 0 = NULL, else the model
    error,      \* the caller's error text buffer (shared by all calls)
    live,       \* balance counter: native objects created and not yet released
    last,       \* what the last API call was given and what it did, and
                \* whether the error buffer held a message when it began
    cpu,        \* the last get_optimal_cpus call: topology, arguments, result
    thr         \* per thread: its position in run, its arguments, locals, buffers

vars == <<api, env, session, error, live, last, cpu, thr>>
ortVars == <<api, env, session, error, live, last>>


(***************************************************************************)
(* Native objects and the trace of native calls a handler makes            *)
(***************************************************************************)
Kinds == {"new_env", "ort_env", "session_options", "new_session", "ort_session",
          "mem_info", "input_tensor", "output_tensor", "shape_info", "status"}

\* the transient engine objects of one run call
TransientKinds == {"mem_info", "input_tensor", "output_tensor", "shape_info"}

\* one native call: the function, the object it creates / releases / reads,
\* and whether it succeeded
E(fn, obj, ok) == [fn |-> fn, obj |-> obj, ok |-> ok]

CreateFns == {"malloc", "CreateEnv", "CreateSessionOptions", "CreateSessionFromArray",
              "CreateCpuMemoryInfo", "CreateTensorWithDataAsOrtValue", "Run",
              "GetTensorTypeAndShape"}
ReleaseFns == {"free", "ReleaseEnv", "ReleaseSessionOptions", "ReleaseSession",
               "ReleaseMemoryInfo", "ReleaseValue", "ReleaseTensorTypeAndShapeInfo",
               "ReleaseStatus"}
\* calls into the inference engine (malloc / free are the C library)
EngineFns == (CreateFns \cup ReleaseFns \cup
              {"SetIntraOpNumThreads", "SetInterOpNumThreads", "EnableProfiling",
               "GetDimensionsCount", "GetDimensions", "GetTensorShapeElementCount",
               "GetTensorMutableData", "GetErrorMessage", "GetApi"}) \ {"malloc", "free"}

\* a failed engine call hands back an OrtStatus object the caller owns
Created(tr, k) ==
    Cardinality({i \in DOMAIN tr :
        \/ tr[i].obj = k /\ tr[i].fn \in CreateFns /\ tr[i].ok
        \/ k = "status" /\ ~tr[i].ok /\ tr[i].fn \in EngineFns})
Released(tr, k) ==
    Cardinality({i \in DOMAIN tr : tr[i].obj = k /\ tr[i].fn \in ReleaseFns})
EngineCalls(tr) == {i \in DOMAIN tr : tr[i].fn \in EngineFns}

(***************************************************************************)
(* get_api: lazily caches the engine function table in a static            *)
(***************************************************************************)
get_api(cached) == IF cached THEN <<>> ELSE <<E("GetApi", "api", TRUE)>>

(***************************************************************************)
(* Error handling helpers.  `present` is "error != NULL", `cur` the text   *)
(* currently in the buffer; the result is the text after the call.         *)
(***************************************************************************)
\* mutant: the whole message is copied, whatever its length
write_error_Unbounded(present, cur, msg) ==
    IF ~present \/ msg.id = "NULL" THEN cur ELSE msg
write_error(present, cur, msg) ==
    IF ~present \/ msg.id = "NULL"
    THEN cur
    ELSE LET msg_len  == msg.len
             copy_len == IF msg_len < SPEEDREADER_ORT_ERROR_BUF_SIZE - 1
                         THEN msg_len
                         ELSE SPEEDREADER_ORT_ERROR_BUF_SIZE - 1
         IN  [msg EXCEPT !.len = copy_len]

\* the native calls of write_ort_error(status, error) for a non-NULL status
write_ort_error(cached) ==
    get_api(cached) \o <<E("GetErrorMessage", "status", TRUE),
                         E("ReleaseStatus", "status", TRUE)>>

\* mutant: the buffer is left as the previous call left it
clear_error_Skip(present, cur) == cur
clear_error(present, cur) == IF present THEN EmptyText ELSE cur

\* snprintf(error, size, ...) on a non-NULL buffer: at most size-1 characters
snprintf(cur, size, msg) == [msg EXCEPT !.len = Min(msg.len, size - 1)]


(***************************************************************************)
(* The result of one handler: the status it returns, the error text after  *)
(* it, the native calls it made, whether it reached get_api, whether it    *)
(* stored a handle in its out-parameter, the caller's output buffers after *)
(* it, and whether it wrote through a NULL pointer (fault) or past the end *)
(* of the caller's shape array (oob).                                      *)
(***************************************************************************)
NoNdim == -1      \* *output_ndim was not written
Unwritten == -1   \* an element of output_shape that was not written
Untouched == 0    \* an element of output_data that was not written

Result(e0) ==
    [status |-> SPEEDREADER_ORT_OK, error |-> e0, calls |-> <<>>, api |-> FALSE,
     wrote |-> FALSE, data |-> <<>>, shape |-> <<>>, ndim |-> NoNdim,
     fault |-> FALSE, oob |-> FALSE]

\* return SPEEDREADER_ORT_ERROR after write_error(error, msg)
Fail(r, a, tr, msg) ==
    [r EXCEPT !.status = SPEEDREADER_ORT_ERROR, !.calls = tr,
              !.error = write_error(a.error, r.error, msg)]

\* return SPEEDREADER_ORT_ERROR after write_ort_error(status, error)
OrtFail(r, a, tr) ==
    [r EXCEPT !.status = SPEEDREADER_ORT_ERROR,
              !.calls = tr \o write_ort_error(TRUE),
              !.error = write_error(a.error, r.error, OrtMessage(a.msglen))]

(***************************************************************************)
(* Environment management                                                  *)
(***************************************************************************)
speedreader_ort_create_env_impl(a, cached, err0) ==
    LET r0 == Result(clear_error(a.error, err0))
    IN
    IF ~a.env
    THEN Fail(r0, a, <<>>, Msg("env parameter is NULL", 0, 0, 21))
    ELSE
    LET r1 == [r0 EXCEPT !.api = TRUE]
        t1 == get_api(cached) \o <<E("malloc", "new_env", a.malloc_ok)>>
    IN
    IF ~a.malloc_ok
    THEN Fail(r1, a, t1, Msg("failed to allocate environment", 0, 0, 30))
    ELSE
    LET t2 == t1 \o <<E("CreateEnv", "ort_env", a.fail # "CreateEnv")>>
    IN
    IF a.fail = "CreateEnv"
    THEN OrtFail(r1, a, t2 \o <<E("free", "new_env", TRUE)>>)
    ELSE [r1 EXCEPT !.calls = t2, !.wrote = TRUE]

speedreader_ort_destroy_env_impl(e, cached, err0) ==
    LET r0 == Result(err0)
    IN
    IF e = 0
    THEN r0
    ELSE [r0 EXCEPT !.api = TRUE,
                    !.calls = get_api(cached) \o <<E("ReleaseEnv", "ort_env", TRUE),
                                                   E("free", "new_env", TRUE)>>]

(***************************************************************************)
(* Session management                                                      *)
(***************************************************************************)
\* mutant: the session options are never released
rel_Leak == <<>>
\* api->ReleaseSessionOptions(session_options)
rel == <<E("ReleaseSessionOptions", "session_options", TRUE)>>

speedreader_ort_create_session_impl(a, cached, err0) ==
    LET r0 == Result(clear_error(a.error, err0))
    IN
    IF a.env = 0 \/ ~a.model_data \/ ~a.options \/ ~a.session
    THEN Fail(r0, a, <<>>, Msg("invalid argument: NULL parameter", 0, 0, 32))
    ELSE
    LET r1  == [r0 EXCEPT !.api = TRUE]
        t1  == get_api(cached) \o
               <<E("CreateSessionOptions", "session_options",
                   a.fail # "CreateSessionOptions")>>
    IN
    IF a.fail = "CreateSessionOptions"
    THEN OrtFail(r1, a, t1)
    ELSE
    LET t2 == t1 \o <<E("SetIntraOpNumThreads", "session_options",
                        a.fail # "SetIntraOpNumThreads")>>
    IN
    IF a.fail = "SetIntraOpNumThreads"
    THEN OrtFail(r1, a, t2 \o rel)
    ELSE
    LET t3 == t2 \o <<E("SetInterOpNumThreads", "session_options",
                        a.fail # "SetInterOpNumThreads")>>
    IN
    IF a.fail = "SetInterOpNumThreads"
    THEN OrtFail(r1, a, t3 \o rel)
    ELSE
    LET t4 == IF a.enable_profiling # 0
              THEN t3 \o <<E("EnableProfiling", "session_options",
                             a.fail # "EnableProfiling")>>
              ELSE t3
    IN
    IF a.enable_profiling # 0 /\ a.fail = "EnableProfiling"
    THEN OrtFail(r1, a, t4 \o rel)
    ELSE
    LET t5 == t4 \o <<E("malloc", "new_session", a.malloc_ok)>>
    IN
    IF ~a.malloc_ok
    THEN Fail(r1, a, t5 \o rel, Msg("failed to allocate session", 0, 0, 26))
    ELSE
    LET t6 == t5 \o <<E("CreateSessionFromArray", "ort_session",
                        a.fail # "CreateSessionFromArray")>> \o rel
    IN
    IF a.fail = "CreateSessionFromArray"
    THEN OrtFail(r1, a, t6 \o <<E("free", "new_session", TRUE)>>)
    ELSE [r1 EXCEPT !.calls = t6, !.wrote = TRUE]

speedreader_ort_destroy_session_impl(s, cached, err0) ==
    LET r0 == Result(err0)
    IN
    IF s.rank = 0
    THEN r0
    ELSE [r0 EXCEPT !.api = TRUE,
                    !.calls = get_api(cached) \o
                              <<E("ReleaseSession", "ort_session", TRUE),
                                E("free", "new_session", TRUE)>>]


(***************************************************************************)
(* The engine's forward pass (external).  A session's model is identified  *)
(* by the rank of its output and the size d of its leading dimension; the  *)
(* output tensor is a function of the model and the input alone.           *)
(***************************************************************************)
NullSession == [rank |-> 0, d |-> 0]

OutDims(m) == [i \in 1..m.rank |-> IF i = 1 THEN m.d ELSE IF i = 2 THEN 2 ELSE 1]
OutData(m, x) == [j \in 1..Product(OutDims(m)) |-> ((x + j) % 3) + 1]

\* mutant: the copy is made before the status of GetTensorMutableData is
\* looked at
CopyOutput_Unchecked(ok, dst, src, n) ==
    [j \in DOMAIN dst |-> IF j <= n THEN src[j] ELSE dst[j]]
\* the caller's output_data after GetTensorMutableData returned (ok: with a
\* NULL status): memcpy(output_data, output_ptr, n * sizeof(float)) is
\* reached only past the status check
CopyOutput(ok, dst, src, n) ==
    IF ok THEN [j \in DOMAIN dst |-> IF j <= n THEN src[j] ELSE dst[j]]
    ELSE dst

\* mutant: a buffer larger than the output is accepted
SizeMatches_AtMost(output_element_count, output_count) ==
    output_element_count <= output_count
\* "Verify output data size matches exactly"
SizeMatches(output_element_count, output_count) ==
    output_element_count = output_count


(***************************************************************************)
(* Inference execution                                                     *)
(*   s    : the session the caller passes (NullSession for NULL)           *)
(*   a    : the other arguments; pointers are "present" flags, shape_cap   *)
(*          is the allocated size of the caller's output_shape array,      *)
(*          fail names the engine call that fails (if any), ub the outcome *)
(*          of a write through a NULL pointer                              *)
(***************************************************************************)
\* api->ReleaseTensorTypeAndShapeInfo(shape_info)
relShape == <<E("ReleaseTensorTypeAndShapeInfo", "shape_info", TRUE)>>
\* mutant: the output tensor is never released
relOut_Leak == <<>>
\* api->ReleaseValue(output_tensor)
relOut == <<E("ReleaseValue", "output_tensor", TRUE)>>

speedreader_ort_run_impl(s, a, cached, err0) ==
    LET r0 == [Result(clear_error(a.error, err0)) EXCEPT
                   !.data  = IF a.output_data
                             THEN [j \in 1..a.output_count |-> Untouched] ELSE <<>>,
                   !.shape = IF a.output_shape
                             THEN [i \in 1..a.shape_cap |-> Unwritten] ELSE <<>>]
    IN
    IF s.rank = 0 \/ ~a.input_data \/ ~a.input_shape \/
       ~a.output_data \/ ~a.output_shape \/ ~a.output_ndim
    THEN Fail(r0, a, <<>>, Msg("invalid argument: NULL parameter", 0, 0, 32))
    ELSE
    LET r1 == [r0 EXCEPT !.api = TRUE]
        t1 == get_api(cached) \o
              <<E("CreateCpuMemoryInfo", "mem_info", a.fail # "CreateCpuMemoryInfo")>>
    IN
    IF a.fail = "CreateCpuMemoryInfo"
    THEN OrtFail(r1, a, t1)
    ELSE
    LET t2 == t1 \o <<E("CreateTensorWithDataAsOrtValue", "input_tensor",
                        a.fail # "CreateTensorWithDataAsOrtValue"),
                      E("ReleaseMemoryInfo", "mem_info", TRUE)>>
    IN
    IF a.fail = "CreateTensorWithDataAsOrtValue"
    THEN OrtFail(r1, a, t2)
    ELSE
    LET t3 == t2 \o <<E("Run", "output_tensor", a.fail # "Run"),
                      E("ReleaseValue", "input_tensor", TRUE)>>
    IN
    IF a.fail = "Run"
    THEN OrtFail(r1, a, t3)
    ELSE
    LET t4 == t3 \o <<E("GetTensorTypeAndShape", "shape_info",
                        a.fail # "GetTensorTypeAndShape")>>
    IN
    IF a.fail = "GetTensorTypeAndShape"
    THEN OrtFail(r1, a, t4 \o relOut)
    ELSE
    LET num_dims == Len(OutDims(s))
        t5 == t4 \o <<E("GetDimensionsCount", "shape_info",
                        a.fail # "GetDimensionsCount")>>
    IN
    IF a.fail = "GetDimensionsCount"
    THEN OrtFail(r1, a, t5 \o relShape \o relOut)
    ELSE
    IF num_dims > SPEEDREADER_ORT_MAX_SHAPE_DIMS
    THEN \* snprintf(error, ...) with no NULL check
         LET m == Msg("output has dimensions", num_dims, SPEEDREADER_ORT_MAX_SHAPE_DIMS,
                      41 + Digits(num_dims) + Digits(SPEEDREADER_ORT_MAX_SHAPE_DIMS))
         IN [r1 EXCEPT !.calls  = t5 \o relShape \o relOut,
                       !.fault  = ~a.error,
                       !.error  = IF a.error
                                  THEN snprintf(@, SPEEDREADER_ORT_ERROR_BUF_SIZE, m)
                                  ELSE @,
                       !.status = IF ~a.error /\ a.ub = "crash"
                                  THEN NoStatus ELSE SPEEDREADER_ORT_ERROR]
    ELSE
    LET t6 == t5 \o <<E("GetDimensions", "shape_info", a.fail # "GetDimensions")>>
    IN
    IF a.fail = "GetDimensions"
    THEN OrtFail(r1, a, t6 \o relShape \o relOut)
    ELSE
    \* GetDimensions stored num_dims values through output_shape
    LET r2 == [r1 EXCEPT
                  !.shape = [i \in 1..a.shape_cap |->
                                IF i <= num_dims THEN OutDims(s)[i] ELSE Unwritten],
                  !.oob   = num_dims > a.shape_cap,
                  !.ndim  = num_dims]
        output_element_count == Product(OutDims(s))
        t7 == t6 \o <<E("GetTensorShapeElementCount", "shape_info",
                        a.fail # "GetTensorShapeElementCount")>> \o relShape
    IN
    IF a.fail = "GetTensorShapeElementCount"
    THEN OrtFail(r2, a, t7 \o relOut)
    ELSE
    IF ~SizeMatches(output_element_count, a.output_count)
    THEN \* snprintf(error, ...) with no NULL check
         LET m == Msg("output size mismatch", a.output_count, output_element_count,
                      37 + Digits(a.output_count) + Digits(output_element_count))
         IN [r2 EXCEPT !.calls  = t7 \o relOut,
                       !.fault  = ~a.error,
                       !.error  = IF a.error
                                  THEN snprintf(@, SPEEDREADER_ORT_ERROR_BUF_SIZE, m)
                                  ELSE @,
                       !.status = IF ~a.error /\ a.ub = "crash"
                                  THEN NoStatus ELSE SPEEDREADER_ORT_ERROR]
    ELSE
    LET t8 == t7 \o <<E("GetTensorMutableData", "output_tensor",
                        a.fail # "GetTensorMutableData")>>
        r3 == [r2 EXCEPT !.data = CopyOutput(a.fail # "GetTensorMutableData", @,
                                             OutData(s, a.input),
                                             output_element_count)]
    IN
    IF a.fail = "GetTensorMutableData"
    THEN OrtFail(r3, a, t8 \o relOut)
    ELSE [r3 EXCEPT !.calls = t8 \o relOut]


(***************************************************************************)
(* Inputs of the calls                                                     *)
(***************************************************************************)
ShortMsg == 40     \* length of a short engine diagnostic
MsgLens == {ShortMsg, LongMsg}

\* models a session can be created from
Models == {[rank |-> 1, d |-> d] : d \in 0..MaxDim}
          \cup {[rank |-> 2, d |-> 1],
                [rank |-> SPEEDREADER_ORT_MAX_SHAPE_DIMS, d |-> 1],
                [rank |-> SPEEDREADER_ORT_MAX_SHAPE_DIMS + 1, d |-> 1]}

EnvFails == {"none", "CreateEnv"}
SessionFails == {"none", "CreateSessionOptions", "SetIntraOpNumThreads",
                 "SetInterOpNumThreads", "EnableProfiling", "CreateSessionFromArray"}
RunFails == {"CreateCpuMemoryInfo", "CreateTensorWithDataAsOrtValue", "Run",
             "GetTensorTypeAndShape", "GetDimensionsCount", "GetDimensions",
             "GetTensorShapeElementCount", "GetTensorMutableData"}
RunPointers == {"session", "input_data", "input_shape", "output_data",
                "output_shape", "output_ndim"}
\* allocated sizes of the caller's output_shape array
ShapeCaps == {1, 2, SPEEDREADER_ORT_MAX_SHAPE_DIMS}

CreateEnvArgs ==
    [env : BOOLEAN, error : BOOLEAN, malloc_ok : BOOLEAN, fail : EnvFails,
     msglen : MsgLens]

SessionArgsOk(model, e) ==
    [model_data |-> TRUE, options |-> TRUE, session |-> TRUE, error |-> e,
     enable_profiling |-> 0, malloc_ok |-> TRUE, fail |-> "none",
     msglen |-> ShortMsg, model |-> model]
CreateSessionArgs ==
    {SessionArgsOk(m, e) : m \in Models, e \in BOOLEAN}
    \cup {[SessionArgsOk(m, e) EXCEPT !.enable_profiling = 1] :
            m \in Models, e \in BOOLEAN}
    \cup {[SessionArgsOk([rank |-> 1, d |-> 1], e) EXCEPT ![p] = FALSE] :
            p \in {"model_data", "options", "session", "malloc_ok"}, e \in BOOLEAN}
    \cup {[SessionArgsOk([rank |-> 1, d |-> 1], e) EXCEPT
              !.fail = f, !.msglen = l, !.enable_profiling = 1] :
            f \in SessionFails, l \in MsgLens, e \in BOOLEAN}

RunArgsOk(x, c, e) ==
    [session |-> TRUE, input_data |-> TRUE, input |-> x, input_shape |-> TRUE,
     output_data |-> TRUE, output_count |-> c, output_shape |-> TRUE,
     shape_cap |-> SPEEDREADER_ORT_MAX_SHAPE_DIMS, output_ndim |-> TRUE,
     error |-> e, fail |-> "none", msglen |-> ShortMsg, ub |-> "crash"]
RunArgs ==
    {RunArgsOk(x, c, e) : x \in 1..MaxInput, c \in 0..MaxCount, e \in BOOLEAN}
    \cup {[RunArgsOk(1, c, FALSE) EXCEPT !.ub = "silent"] : c \in 0..MaxCount}
    \cup {[RunArgsOk(1, c, e) EXCEPT ![p] = FALSE] :
            p \in RunPointers, c \in {0, 2}, e \in BOOLEAN}
    \cup {[RunArgsOk(1, 2, e) EXCEPT !.fail = f, !.msglen = l] :
            f \in RunFails, l \in MsgLens, e \in BOOLEAN}
    \cup {[RunArgsOk(1, c, e) EXCEPT !.shape_cap = k] :
            k \in ShapeCaps, c \in {0, 2}, e \in BOOLEAN}

(***************************************************************************)
(* CPU topology selection (speedreader_cpuinfo.c)                          *)
(*                                                                         *)
(* A topology is the sequence of L2 caches cpuinfo enumerates.  An L2 is   *)
(* [null, processor_start, procs, freq]: null when cpuinfo_get_l2_cache    *)
(* returns NULL; procs[p] is the smt_id of processor processor_start+p-1   *)
(* (NullProc when cpuinfo_get_processor returns NULL); freq is the nominal *)
(* frequency of the cores of the cache (NoCore when proc->core is NULL).   *)
(* A processor's linux_id is its index.                                    *)
(***************************************************************************)
SPEEDREADER_CPUINFO_MAX_CPUS == 256
SPEEDREADER_CPUINFO_ERROR_BUF_SIZE == 256
SPEEDREADER_CPUINFO_OK == "OK"
SPEEDREADER_CPUINFO_ERROR == "ERROR"

NullProc == -1
NoCore == -1

\* CpuCandidate
CpuCandidate(id, f) == [linux_id |-> id, frequency |-> f]

\* mutant: the comparison is ascending
compare_by_frequency_asc(ca, cb) ==
    IF cb.frequency < ca.frequency THEN 1
    ELSE IF cb.frequency > ca.frequency THEN -1
    ELSE 0
compare_by_frequency_desc(ca, cb) ==
    IF cb.frequency > ca.frequency THEN 1
    ELSE IF cb.frequency < ca.frequency THEN -1
    ELSE 0

\* mutant: the scan takes the first processor, whatever its smt_id
RECURSIVE FirstProcessor(_, _)
FirstProcessor(procs, p) ==
    IF p > Len(procs) THEN 0
    ELSE IF procs[p] # NullProc THEN p
    ELSE FirstProcessor(procs, p + 1)
\* the inner loop: the first non-NULL processor with smt_id == 0 (0: none)
RECURSIVE FirstPrimary(_, _)
FirstPrimary(procs, p) ==
    IF p > Len(procs) THEN 0
    ELSE IF procs[p] # NullProc /\ procs[p] = 0 THEN p
    ELSE FirstPrimary(procs, p + 1)

\* cpuinfo_get_l2_cache(i) is not NULL and one of its processors is primary
HasPrimary(l2) == ~l2.null /\ FirstPrimary(l2.procs, 1) # 0

\* the outer loop: it visits the caches in order while candidate_count is
\* below SPEEDREADER_CPUINFO_MAX_CPUS and appends the primary processor of
\* each cache that has one, so it collects the first MAX_CPUS of them
Collect(topo) ==
    LET found == SelectSeq(topo, HasPrimary)
        candidate_count == Min(Len(found), SPEEDREADER_CPUINFO_MAX_CPUS)
    IN [k \in 1..candidate_count |->
          CpuCandidate(found[k].processor_start + FirstPrimary(found[k].procs, 1) - 1,
                       IF found[k].freq # NoCore THEN found[k].freq ELSE 0)]

(***************************************************************************)
(* qsort: the C library promises a result ordered by the comparison and    *)
(* leaves the order of elements that compare equal unspecified.  The set   *)
(* of results is every arrangement of the ties of the ordered sequence.    *)
(***************************************************************************)
\* base ordered by the comparison, ties in their original order
Ordered(base) ==
    LET tagged == [i \in 1..Len(base) |-> [at |-> i, c |-> base[i]]]
        Before(x, y) ==
            \/ compare_by_frequency_desc(x.c, y.c) < 0
            \/ compare_by_frequency_desc(x.c, y.c) = 0 /\ x.at < y.at
        sorted == SortSeq(tagged, Before)
    IN [k \in 1..Len(base) |-> sorted[k].c]

RECURSIVE TieLen(_, _)
\* length of the run of elements of s, from index n on, equal to s[1]
TieLen(s, n) ==
    IF n > Len(s) \/ compare_by_frequency_desc(s[1], s[n]) # 0 THEN n - 1
    ELSE TieLen(s, n + 1)

RECURSIVE Orderings(_)
Orderings(g) ==
    IF Len(g) <= 1 THEN {g}
    ELSE UNION {{<<g[i]>> \o r :
                   r \in Orderings(SubSeq(g, 1, i - 1) \o SubSeq(g, i + 1, Len(g)))} :
                i \in 1..Len(g)}

RECURSIVE Arrangements(_)
Arrangements(s) ==
    IF \A i \in 1..(Len(s) - 1) : compare_by_frequency_desc(s[i], s[i + 1]) # 0
    THEN {s}
    ELSE LET n == TieLen(s, 1)
         IN {h \o t : h \in Orderings(SubSeq(s, 1, n)),
                      t \in Arrangements(SubSeq(s, n + 1, Len(s)))}

qsort(base) == Arrangements(Ordered(base))

(***************************************************************************)
(* speedreader_cpuinfo_get_optimal_cpus                                    *)
(*   a.result / a.error : the pointers are present; a.init_ok : the result *)
(*   of cpuinfo_initialize; res0 / err0 : the caller's result struct and   *)
(*   error text before the call.  The set of outcomes the call can have.   *)
(***************************************************************************)
cpuinfo_write_error(present, cur, msg) ==
    IF ~present \/ msg.id = "NULL"
    THEN cur
    ELSE LET msg_len  == msg.len
             copy_len == IF msg_len < SPEEDREADER_CPUINFO_ERROR_BUF_SIZE - 1
                         THEN msg_len
                         ELSE SPEEDREADER_CPUINFO_ERROR_BUF_SIZE - 1
         IN  [msg EXCEPT !.len = copy_len]

CpuResult(status, res, err) == [status |-> status, result |-> res, error |-> err]

\* mutant: the count is left as the caller passed it
InitResult_Skip(res0) == res0
\* "Initialize result": result->count = 0
InitResult(res0) == [res0 EXCEPT !.count = 0]

speedreader_cpuinfo_get_optimal_cpus_impl(topo, a, res0, err0) ==
    LET e0 == clear_error(a.error, err0)
        CpuFail(res, id, len) ==
            {CpuResult(SPEEDREADER_CPUINFO_ERROR, res,
                       cpuinfo_write_error(a.error, e0, Msg(id, 0, 0, len)))}
    IN
    IF ~a.result
    THEN CpuFail(res0, "result parameter is NULL", 24)
    ELSE
    LET r0 == InitResult(res0)
    IN
    IF ~a.init_ok
    THEN CpuFail(r0, "cpuinfo_initialize failed", 25)
    ELSE
    LET l2_count == Len(topo)
    IN
    IF l2_count = 0
    THEN CpuFail(r0, "no L2 caches found", 18)
    ELSE
    LET candidates == Collect(topo)
        candidate_count == Len(candidates)
    IN
    IF candidate_count = 0
    THEN CpuFail(r0, "no suitable CPUs found", 22)
    ELSE
    {CpuResult(SPEEDREADER_CPUINFO_OK,
               [cpu_indices |-> [i \in 1..candidate_count |-> sorted[i].linux_id]
                                \o SubSeq(r0.cpu_indices, candidate_count + 1,
                                          Len(r0.cpu_indices)),
                count |-> candidate_count],
               e0) : sorted \in qsort(candidates)}

(***************************************************************************)
(* Topologies of the machine                                               *)
(***************************************************************************)
MaxDomains == 3    \* largest number of L2 caches enumerated exhaustively
MaxFreq == 1       \* largest nominal frequency

\* smt_ids of the processors of one L2, in enumeration order
SmtPatterns == {<<0, 1>>, <<1, 0>>, <<1, 1>>, <<NullProc, 0>>}
\* the frequency is read from the core of the processor the scan picks,
\* whatever the scan skipped: the range of frequencies is combined with the
\* two patterns that differ in which processor is picked
L2Shapes ==
    {[null |-> FALSE, procs |-> pt, freq |-> f] :
        pt \in {<<0, 1>>, <<1, 0>>}, f \in 0..MaxFreq}
    \cup {[null |-> FALSE, procs |-> pt, freq |-> 0] : pt \in SmtPatterns}
    \cup {[null |-> FALSE, procs |-> <<0, 1>>, freq |-> NoCore],
          [null |-> TRUE, procs |-> <<>>, freq |-> NoCore]}

RECURSIVE ProcessorsBefore(_, _)
ProcessorsBefore(shapes, i) ==
    IF i = 1 THEN 0 ELSE Len(shapes[i - 1].procs) + ProcessorsBefore(shapes, i - 1)
Topology(shapes) ==
    [i \in 1..Len(shapes) |->
        [null |-> shapes[i].null, procs |-> shapes[i].procs, freq |-> shapes[i].freq,
         processor_start |-> ProcessorsBefore(shapes, i)]]

\* k L2 caches of two SMT siblings each, the later the faster
Uniform(k) ==
    [i \in 1..k |-> [null |-> FALSE, procs |-> <<0, 1>>, freq |-> i,
                     processor_start |-> 2 * (i - 1)]]

Topologies ==
    {Topology(sh) : sh \in UNION {[1..k -> L2Shapes] : k \in 0..MaxDomains}}
    \cup {Uniform(SPEEDREADER_CPUINFO_MAX_CPUS), Uniform(SPEEDREADER_CPUINFO_MAX_CPUS + 1)}

CpuArgs ==
    {[result |-> TRUE, error |-> TRUE, init_ok |-> TRUE],
     [result |-> TRUE, error |-> FALSE, init_ok |-> TRUE],
     [result |-> FALSE, error |-> TRUE, init_ok |-> TRUE],
     [result |-> TRUE, error |-> TRUE, init_ok |-> FALSE]}

\* the caller's SpeedReaderOptimalCpus before a call: nothing stored yet
Garbage == -7
FreshResult == [cpu_indices |-> <<>>, count |-> Garbage]

(***************************************************************************)
(* The state machine: a caller that owns one environment handle, one       *)
(* session handle and one error buffer, and calls the API sequentially.    *)
(***************************************************************************)
Balance(tr) == [k \in Kinds |-> live[k] + Created(tr, k) - Released(tr, k)]

InitCpu(topo) ==
    cpu = [topo |-> topo, op |-> "init", a |-> [result |-> FALSE, error |-> FALSE,
                                                init_ok |-> FALSE],
           r |-> CpuResult("NONE", FreshResult, EmptyText)]

NThreads == 2      \* number of threads calling run concurrently
Threads == 1..NThreads
NoTensor == [dims |-> <<>>, data |-> <<>>]
InitThreads ==
    thr = [t \in Threads |->
              [pc |-> "idle", a |-> [error |-> FALSE], r |-> Result(EmptyText),
               output_tensor |-> NoTensor]]

Init ==
    /\ InitCpu(<<>>)
    /\ InitThreads
    /\ api = FALSE
    /\ env = 0
    /\ session = NullSession
    /\ error = EmptyText
    /\ live = [k \in Kinds |-> 0]
    /\ last = [op |-> "init", a |-> [error |-> FALSE], s |-> NullSession,
               r |-> Result(EmptyText), had_text |-> FALSE]

Commit(op, a, s, r) ==
    /\ api' = (api \/ r.api)
    /\ error' = r.error
    /\ live' = Balance(r.calls)
    /\ last' = [op |-> op, a |-> a, s |-> s, r |-> r,
                had_text |-> error # EmptyText]
    /\ UNCHANGED <<cpu, thr>>

speedreader_ort_create_env ==
    /\ env = 0
    /\ \E a \in CreateEnvArgs :
         LET r == speedreader_ort_create_env_impl(a, api, error)
         IN /\ Commit("create_env", a, NullSession, r)
            /\ env' = IF r.wrote THEN 1 ELSE env
            /\ UNCHANGED session

speedreader_ort_destroy_env ==
    /\ session = NullSession
    /\ LET r == speedreader_ort_destroy_env_impl(env, api, error)
       IN /\ Commit("destroy_env", [error |-> FALSE], NullSession, r)
          /\ env' = 0
          /\ UNCHANGED session

speedreader_ort_create_session ==
    /\ session = NullSession
    /\ \E a0 \in CreateSessionArgs :
         LET a == [env |-> env] @@ a0
             r == speedreader_ort_create_session_impl(a, api, error)
         IN /\ Commit("create_session", a, NullSession, r)
            /\ session' = IF r.wrote THEN a.model ELSE session
            /\ UNCHANGED env

speedreader_ort_destroy_session ==
    /\ LET r == speedreader_ort_destroy_session_impl(session, api, error)
       IN /\ Commit("destroy_session", [error |-> FALSE], session, r)
          /\ session' = NullSession
          /\ UNCHANGED env

speedreader_ort_run ==
    \E a \in RunArgs :
        LET s == IF a.session THEN session ELSE NullSession
            r == speedreader_ort_run_impl(s, a, api, error)
        IN /\ Commit("run", a, s, r)
           /\ UNCHANGED <<env, session>>

Next ==
    \/ speedreader_ort_create_env
    \/ speedreader_ort_destroy_env
    \/ speedreader_ort_create_session
    \/ speedreader_ort_destroy_session
    \/ speedreader_ort_run

Spec == Init /\ [][Next]_vars


(***************************************************************************)
(* Concurrent run calls on one session.  Each thread executes              *)
(* speedreader_ort_run on its own arguments and buffers; a step is the     *)
(* code between two accesses to state another thread can reach (the static *)
(* of get_api, the session, the engine).                                   *)
(***************************************************************************)
ConcModels == {[rank |-> 1, d |-> 1], [rank |-> 1, d |-> MaxDim]}
ConcArgs ==
    {RunArgsOk(x, c, TRUE) : x \in 1..MaxInput, c \in {1, MaxDim}}
    \cup {[RunArgsOk(1, 1, TRUE) EXCEPT !.fail = f] :
            f \in {"Run", "GetDimensions", "GetTensorMutableData"}}
    \cup {[RunArgsOk(1, 1, FALSE) EXCEPT !.input_data = FALSE]}

\* mutant: output_tensor is a static, shared by the calls in flight
OutputTensor_Static(t) ==
    LET others == {u \in Threads : u # t /\ thr[u].pc \in {"shape", "count", "copy"}}
    IN IF others = {} THEN thr[t].output_tensor
       ELSE thr[CHOOSE u \in others : TRUE].output_tensor
\* the thread's local `OrtValue* output_tensor`, after api->Run
OutputTensor(t) == thr[t].output_tensor

Goto(t, pc, r) == thr' = [thr EXCEPT ![t].pc = pc, ![t].r = r]
Return(t, r) == Goto(t, "done", r)

\* lines 221-227: clear_error and the NULL checks
run_entry(t) ==
    /\ thr[t].pc \in {"idle", "done"}
    /\ \E a \in ConcArgs :
         LET s  == IF a.session THEN session ELSE NullSession
             r0 == [Result(clear_error(a.error, thr[t].r.error)) EXCEPT
                       !.data  = IF a.output_data
                                 THEN [j \in 1..a.output_count |-> Untouched]
                                 ELSE <<>>,
                       !.shape = IF a.output_shape
                                 THEN [i \in 1..a.shape_cap |-> Unwritten] ELSE <<>>]
         IN thr' = [thr EXCEPT ![t] =
               IF s.rank = 0 \/ ~a.input_data \/ ~a.input_shape \/
                  ~a.output_data \/ ~a.output_shape \/ ~a.output_ndim
               THEN [pc |-> "done", a |-> a, output_tensor |-> NoTensor,
                     r |-> Fail(r0, a, <<>>,
                                Msg("invalid argument: NULL parameter", 0, 0, 32))]
               ELSE [pc |-> "get_api", a |-> a, output_tensor |-> NoTensor,
                     r |-> r0]]
    /\ UNCHANGED <<ortVars, cpu>>

\* line 229: get_api reads the static and, if it is NULL, looks the table up
run_get_api(t) ==
    /\ thr[t].pc = "get_api"
    /\ api' = TRUE
    /\ Goto(t, "input", [thr[t].r EXCEPT !.api = TRUE, !.calls = get_api(api)])
    /\ UNCHANGED <<env, session, error, live, last, cpu>>

\* lines 236-266: memory info and the input tensor over the caller's memory
run_input(t) ==
    /\ thr[t].pc = "input"
    /\ LET a  == thr[t].a
           r  == thr[t].r
           t1 == r.calls \o <<E("CreateCpuMemoryInfo", "mem_info",
                                a.fail # "CreateCpuMemoryInfo")>>
           t2 == t1 \o <<E("CreateTensorWithDataAsOrtValue", "input_tensor",
                           a.fail # "CreateTensorWithDataAsOrtValue"),
                         E("ReleaseMemoryInfo", "mem_info", TRUE)>>
       IN IF a.fail = "CreateCpuMemoryInfo" THEN Return(t, OrtFail(r, a, t1))
          ELSE IF a.fail = "CreateTensorWithDataAsOrtValue"
          THEN Return(t, OrtFail(r, a, t2))
          ELSE Goto(t, "forward", [r EXCEPT !.calls = t2])
    /\ UNCHANGED <<ortVars, cpu>>

\* lines 268-289: the forward pass on the shared session
run_forward(t) ==
    /\ thr[t].pc = "forward"
    /\ LET a  == thr[t].a
           r  == thr[t].r
           t3 == r.calls \o <<E("Run", "output_tensor", a.fail # "Run"),
                              E("ReleaseValue", "input_tensor", TRUE)>>
       IN IF a.fail = "Run" THEN Return(t, OrtFail(r, a, t3))
          ELSE thr' = [thr EXCEPT ![t].pc = "shape", ![t].r.calls = t3,
                          ![t].output_tensor =
                              [dims |-> OutDims(session),
                               data |-> OutData(session, a.input)]]
    /\ UNCHANGED <<ortVars, cpu>>

\* lines 291-327: rank and dimensions of the output tensor
run_shape(t) ==
    /\ thr[t].pc = "shape"
    /\ LET a  == thr[t].a
           r  == thr[t].r
           num_dims == Len(OutputTensor(t).dims)
           t4 == r.calls \o <<E("GetTensorTypeAndShape", "shape_info",
                                a.fail # "GetTensorTypeAndShape")>>
           t5 == t4 \o <<E("GetDimensionsCount", "shape_info",
                           a.fail # "GetDimensionsCount")>>
           t6 == t5 \o <<E("GetDimensions", "shape_info", a.fail # "GetDimensions")>>
           m  == Msg("output has dimensions", num_dims, SPEEDREADER_ORT_MAX_SHAPE_DIMS,
                     41 + Digits(num_dims) + Digits(SPEEDREADER_ORT_MAX_SHAPE_DIMS))
       IN IF a.fail = "GetTensorTypeAndShape"
          THEN Return(t, OrtFail(r, a, t4 \o relOut))
          ELSE IF a.fail = "GetDimensionsCount"
          THEN Return(t, OrtFail(r, a, t5 \o relShape \o relOut))
          ELSE IF num_dims > SPEEDREADER_ORT_MAX_SHAPE_DIMS
          THEN Return(t, [r EXCEPT
                   !.calls  = t5 \o relShape \o relOut,
                   !.fault  = ~a.error,
                   !.error  = IF a.error
                              THEN snprintf(@, SPEEDREADER_ORT_ERROR_BUF_SIZE, m)
                              ELSE @,
                   !.status = IF ~a.error /\ a.ub = "crash"
                              THEN NoStatus ELSE SPEEDREADER_ORT_ERROR])
          ELSE IF a.fail = "GetDimensions"
          THEN Return(t, OrtFail(r, a, t6 \o relShape \o relOut))
          ELSE Goto(t, "count", [r EXCEPT
                   !.calls = t6,
                   !.shape = [i \in 1..a.shape_cap |->
                                 IF i <= num_dims THEN OutputTensor(t).dims[i]
                                 ELSE Unwritten],
                   !.oob   = num_dims > a.shape_cap,
                   !.ndim  = num_dims])
    /\ UNCHANGED <<ortVars, cpu>>

\* lines 329-349: the element count against output_count
run_count(t) ==
    /\ thr[t].pc = "count"
    /\ LET a  == thr[t].a
           r  == thr[t].r
           output_element_count == Product(OutputTensor(t).dims)
           t7 == r.calls \o <<E("GetTensorShapeElementCount", "shape_info",
                                a.fail # "GetTensorShapeElementCount")>> \o relShape
           m  == Msg("output size mismatch", a.output_count, output_element_count,
                     37 + Digits(a.output_count) + Digits(output_element_count))
       IN IF a.fail = "GetTensorShapeElementCount"
          THEN Return(t, OrtFail(r, a, t7 \o relOut))
          ELSE IF ~SizeMatches(output_element_count, a.output_count)
          THEN Return(t, [r EXCEPT
                   !.calls  = t7 \o relOut,
                   !.fault  = ~a.error,
                   !.error  = IF a.error
                              THEN snprintf(@, SPEEDREADER_ORT_ERROR_BUF_SIZE, m)
                              ELSE @,
                   !.status = IF ~a.error /\ a.ub = "crash"
                              THEN NoStatus ELSE SPEEDREADER_ORT_ERROR])
          ELSE Goto(t, "copy", [r EXCEPT !.calls = t7])
    /\ UNCHANGED <<ortVars, cpu>>

\* lines 351-364: the copy into the caller's output_data
run_copy(t) ==
    /\ thr[t].pc = "copy"
    /\ LET a  == thr[t].a
           r  == thr[t].r
           t8 == r.calls \o <<E("GetTensorMutableData", "output_tensor",
                                a.fail # "GetTensorMutableData")>>
           r3 == [r EXCEPT !.data = CopyOutput(a.fail # "GetTensorMutableData", @,
                                               OutputTensor(t).data,
                                               Len(OutputTensor(t).data))]
       IN IF a.fail = "GetTensorMutableData"
          THEN Return(t, OrtFail(r3, a, t8 \o relOut))
          ELSE Return(t, [r3 EXCEPT !.calls = t8 \o relOut])
    /\ UNCHANGED <<ortVars, cpu>>

\* the state after create_env and create_session, before any run
InitConcurrent ==
    /\ InitCpu(<<>>)
    /\ InitThreads
    /\ api = TRUE
    /\ env = 1
    /\ session \in ConcModels
    /\ error = EmptyText
    /\ live = [k \in Kinds |->
                 IF k \in {"new_env", "ort_env", "new_session", "ort_session"}
                 THEN 1 ELSE 0]
    /\ last = [op |-> "init", a |-> [error |-> FALSE], s |-> NullSession,
               r |-> Result(EmptyText), had_text |-> FALSE]

NextConcurrent ==
    \E t \in Threads :
        \/ run_entry(t)
        \/ run_get_api(t)
        \/ run_input(t)
        \/ run_forward(t)
        \/ run_shape(t)
        \/ run_count(t)
        \/ run_copy(t)

SpecConcurrent == InitConcurrent /\ [][NextConcurrent]_vars

(***************************************************************************)
(* Vocabulary of the claims about run                                      *)
(***************************************************************************)
IsRun == last.op = "run"
\* the call passed validation and no engine call failed
CleanRun == IsRun /\ last.r.calls # <<>> /\ last.a.fail = "none"
\* the engine forward pass succeeded
ForwardOk == IsRun /\ \E i \in DOMAIN last.r.calls :
                          last.r.calls[i].fn = "Run" /\ last.r.calls[i].ok
ElementCount == Product(OutDims(last.s))
DimensionCount == Len(OutDims(last.s))
\* no element of output_data / output_shape was written
NoDataCopied == \A j \in DOMAIN last.r.data : last.r.data[j] = Untouched
NoShapeWritten == /\ \A i \in DOMAIN last.r.shape : last.r.shape[i] = Unwritten
                  /\ ~last.r.oob
\* the element count the call reports for the data buffer: the signature has
\* no length out-parameter, so the caller knows it only from an OK status
\* (-1 when the call reports none)
DataLength == IF last.r.status = SPEEDREADER_ORT_OK THEN last.a.output_count
              ELSE -1

\* C1: a run whose forward pass succeeds and whose output data capacity is
\* below the output element count returns Truncated, reports the element
\* count as the data length and copies nothing.
C1_TruncatedData ==
    (/\ CleanRun /\ ForwardOk /\ last.a.error
     /\ DimensionCount <= last.a.shape_cap
     /\ last.a.output_count < ElementCount)
    => /\ last.r.status = SPEEDREADER_ORT_TRUNCATED
       /\ DataLength = ElementCount
       /\ NoDataCopied

\* C2: a run whose output rank is at most 16 but exceeds the shape buffer's
\* capacity returns Truncated with the shape length set to the rank, writes
\* no dimension (none past the capacity) and does not attempt the data copy.
C2_TruncatedShape ==
    (/\ CleanRun /\ ForwardOk /\ last.a.error
     /\ DimensionCount <= SPEEDREADER_ORT_MAX_SHAPE_DIMS
     /\ DimensionCount > last.a.shape_cap)
    => /\ last.r.status = SPEEDREADER_ORT_TRUNCATED
       /\ last.r.ndim = DimensionCount
       /\ NoShapeWritten
       /\ NoDataCopied
       /\ \A i \in DOMAIN last.r.calls : last.r.calls[i].fn # "GetTensorMutableData"

\* C3: truncation round trip.  On one session and input, a run with output
\* data capacity 0 returns Truncated reporting the required capacity R, and
\* the following run with capacity R or more returns Ok with the same R
\* output elements and reported length R.
C3_RoundTrip ==
    [][(/\ CleanRun /\ last.a.error /\ last.a.output_count = 0
        /\ last.a.shape_cap >= DimensionCount
        /\ DimensionCount <= SPEEDREADER_ORT_MAX_SHAPE_DIMS
        /\ last'.op = "run" /\ last'.a.fail = "none" /\ last'.r.calls # <<>>
        /\ last'.a.error /\ last'.a.shape_cap >= DimensionCount
        /\ last'.s = last.s /\ last'.a.input = last.a.input
        /\ last'.a.output_count >= ElementCount)
       => /\ last.r.status = SPEEDREADER_ORT_TRUNCATED
          /\ DataLength = ElementCount
          /\ last'.r.status = SPEEDREADER_ORT_OK
          /\ SubSeq(last'.r.data, 1, ElementCount) = OutData(last.s, last.a.input)
      ]_vars

\* the status the last call returns when it is given a present error buffer
StatusWithError ==
    CASE last.op = "create_env" ->
            speedreader_ort_create_env_impl(
                [last.a EXCEPT !.error = TRUE], TRUE, EmptyText).status
      [] last.op = "create_session" ->
            speedreader_ort_create_session_impl(
                [last.a EXCEPT !.error = TRUE], TRUE, EmptyText).status
      [] last.op = "run" ->
            speedreader_ort_run_impl(
                last.s, [last.a EXCEPT !.error = TRUE], TRUE, EmptyText).status
      [] OTHER -> last.r.status

\* C4: a call given a NULL error parameter never writes through it and
\* returns the status the same call returns with an error buffer present.
C4_NullErrorSafe ==
    ~last.a.error => /\ ~last.r.fault
                     /\ last.r.status = StatusWithError

\* C7: run with an absent required pointer, or an output buffer of nonzero
\* capacity and absent data, returns InvalidArgument (not the engine-error
\* status) without any engine call; capacity 0 with absent data is accepted.
RequiredAbsent ==
    \/ last.s.rank = 0 \/ ~last.a.input_data \/ ~last.a.input_shape
    \/ ~last.a.output_ndim \/ ~last.a.output_shape
    \/ (last.a.output_count > 0 /\ ~last.a.output_data)
C7_InvalidArgument ==
    IsRun =>
      /\ RequiredAbsent =>
            /\ last.r.status = SPEEDREADER_ORT_INVALID_ARGUMENT
            /\ EngineCalls(last.r.calls) = {}
      /\ (~RequiredAbsent /\ ~last.a.output_data /\ last.a.output_count = 0) =>
            /\ last.r.status # SPEEDREADER_ORT_INVALID_ARGUMENT
            /\ EngineCalls(last.r.calls) # {}


(***************************************************************************)
(* Resource balance of one call                                            *)
(***************************************************************************)
\* every object of kind k the call created was released exactly once, after
\* its creation, and none is left live
ReleasedOnce(tr, k) ==
    /\ Created(tr, k) <= 1
    /\ Released(tr, k) = Created(tr, k)
    /\ \A i \in DOMAIN tr :
          (tr[i].obj = k /\ tr[i].fn \in ReleaseFns) =>
              \E j \in 1..(i - 1) :
                  tr[j].obj = k /\ tr[j].fn \in CreateFns /\ tr[j].ok
    /\ live[k] = 0

\* C5: on every exit path of run, each transient engine object the call
\* created (memory info, input tensor, output tensor, shape info) has been
\* released exactly once and none remains live.
C5_RunReleasesTransients ==
    IsRun => \A k \in TransientKinds : ReleasedOnce(last.r.calls, k)

\* an error path of run entered after all four transients were created
C5_Witness ==
    /\ IsRun /\ last.r.status = SPEEDREADER_ORT_ERROR
    /\ last.a.fail = "GetTensorShapeElementCount"
    /\ \A k \in TransientKinds : Created(last.r.calls, k) = 1

SessionKinds == {"session_options", "new_session", "ort_session"}
IsCreateSession == last.op = "create_session"
\* some step of the call failed (an engine call or the wrapper allocation)
StepFailed == \E i \in DOMAIN last.r.calls : ~last.r.calls[i].ok

\* C6: session create is all-or-nothing.  If a step fails the status is not
\* Ok, the options object and the wrapper are each released exactly once and
\* the session out-parameter is not written; on success exactly one session
\* (wrapper and engine session) stays live and the options are released.
C6_CreateSessionAllOrNothing ==
    IsCreateSession =>
      /\ StepFailed => last.r.status # SPEEDREADER_ORT_OK
      /\ last.r.status # SPEEDREADER_ORT_OK =>
            /\ \A k \in SessionKinds : ReleasedOnce(last.r.calls, k)
            /\ ~last.r.wrote
            /\ session = NullSession
      /\ last.r.status = SPEEDREADER_ORT_OK =>
            /\ ReleasedOnce(last.r.calls, "session_options")
            /\ Created(last.r.calls, "session_options") = 1
            /\ \A k \in {"new_session", "ort_session"} :
                  /\ Created(last.r.calls, k) = 1
                  /\ Released(last.r.calls, k) = 0
                  /\ live[k] = 1
            /\ last.r.wrote
            /\ session = last.a.model

\* model parsing failed after the options and the wrapper were allocated
C6_Witness ==
    /\ IsCreateSession /\ last.a.fail = "CreateSessionFromArray"
    /\ last.r.status = SPEEDREADER_ORT_ERROR
    /\ Created(last.r.calls, "new_session") = 1
    /\ Created(last.r.calls, "session_options") = 1


(***************************************************************************)
(* The topology selector on one machine: the topology is fixed, the caller *)
(* calls get_optimal_cpus repeatedly with one error buffer.                *)
(***************************************************************************)
speedreader_cpuinfo_get_optimal_cpus ==
    \E a \in CpuArgs :
        \E r \in speedreader_cpuinfo_get_optimal_cpus_impl(
                     cpu.topo, a, cpu.r.result, cpu.r.error) :
            /\ cpu' = [topo |-> cpu.topo, op |-> "get_optimal_cpus", a |-> a, r |-> r]
            /\ UNCHANGED <<ortVars, thr>>

InitTopology ==
    /\ \E topo \in Topologies : InitCpu(topo)
    /\ InitThreads
    /\ api = FALSE
    /\ env = 0
    /\ session = NullSession
    /\ error = EmptyText
    /\ live = [k \in Kinds |-> 0]
    /\ last = [op |-> "init", a |-> [error |-> FALSE], s |-> NullSession,
               r |-> Result(EmptyText), had_text |-> FALSE]

NextCpu == speedreader_cpuinfo_get_optimal_cpus

SpecCpu == InitTopology /\ [][NextCpu]_vars


(***************************************************************************)
(* Vocabulary of the claims about get_optimal_cpus                         *)
(***************************************************************************)
CpuOk == cpu.op = "get_optimal_cpus" /\ cpu.r.status = SPEEDREADER_CPUINFO_OK
\* the L2 cache processor id belongs to
L2Of(id) ==
    CHOOSE i \in DOMAIN cpu.topo :
        /\ ~cpu.topo[i].null
        /\ id >= cpu.topo[i].processor_start
        /\ id < cpu.topo[i].processor_start + Len(cpu.topo[i].procs)
\* nominal frequency of processor id (0 if unknown)
FrequencyOf(id) ==
    IF cpu.topo[L2Of(id)].freq = NoCore THEN 0 ELSE cpu.topo[L2Of(id)].freq
\* processor p of l2 has SMT index 0 and no earlier processor of l2 has
IsFirstPrimary(l2, p) ==
    /\ p \in DOMAIN l2.procs
    /\ l2.procs[p] = 0
    /\ \A q \in 1..(p - 1) : l2.procs[q] # 0
L2WithPrimary ==
    {i \in DOMAIN cpu.topo :
        ~cpu.topo[i].null /\ \E p \in DOMAIN cpu.topo[i].procs : cpu.topo[i].procs[p] = 0}
TwoSiblingsEach ==
    \A i \in DOMAIN cpu.topo :
        ~cpu.topo[i].null /\ cpu.topo[i].procs \in {<<0, 1>>, <<1, 0>>}

\* processor id belongs to L2 cache i
InL2(id, i) ==
    /\ ~cpu.topo[i].null
    /\ id >= cpu.topo[i].processor_start
    /\ id < cpu.topo[i].processor_start + Len(cpu.topo[i].procs)
\* the positions of the returned list that hold a processor of L2 cache i
ReturnedOf(i) ==
    {k \in 1..cpu.r.result.count : InL2(cpu.r.result.cpu_indices[k], i)}

\* C9: every returned CPU is the first SMT-index-0 processor of its L2
\* domain, no domain contributes two, a domain without an SMT-index-0
\* processor contributes none, and K <= 256 domains of two SMT siblings
\* each yield exactly K entries.
C9_OnePrimaryPerL2 ==
    CpuOk =>
      /\ \A k \in 1..cpu.r.result.count :
            \E i \in DOMAIN cpu.topo :
                /\ InL2(cpu.r.result.cpu_indices[k], i)
                /\ IsFirstPrimary(cpu.topo[i],
                      cpu.r.result.cpu_indices[k] - cpu.topo[i].processor_start + 1)
      /\ \A i \in DOMAIN cpu.topo :
            /\ Cardinality(ReturnedOf(i)) <= 1
            /\ i \notin L2WithPrimary => ReturnedOf(i) = {}
      /\ (TwoSiblingsEach /\ Len(cpu.topo) <= SPEEDREADER_CPUINFO_MAX_CPUS)
            => cpu.r.result.count = Len(cpu.topo)

\* three domains: one whose primary thread is enumerated second, one with
\* no primary thread, one ordinary; two CPUs are returned
C9_Witness ==
    /\ CpuOk
    /\ Len(cpu.topo) = 3
    /\ \E i, j \in DOMAIN cpu.topo :
          /\ ~cpu.topo[i].null /\ cpu.topo[i].procs = <<1, 0>>
          /\ ~cpu.topo[j].null /\ cpu.topo[j].procs = <<1, 1>>
    /\ cpu.r.result.count = 2

\* C10: the returned list is ordered by non-increasing frequency and
\* candidates of equal frequency keep the order in which their L2 domains
\* were discovered (stated on neighbours; the order is transitive).
C10_StableFrequencyOrder ==
    CpuOk =>
      \A k \in 1..(cpu.r.result.count - 1) :
          LET x == cpu.r.result.cpu_indices[k]
              y == cpu.r.result.cpu_indices[k + 1]
          IN /\ FrequencyOf(x) >= FrequencyOf(y)
             /\ FrequencyOf(x) = FrequencyOf(y) => L2Of(x) < L2Of(y)


(***************************************************************************)
(* Concurrent runs                                                         *)
(***************************************************************************)
\* what the call of thread t returns when it runs alone on the session
RunAlone(t) ==
    speedreader_ort_run_impl(IF thr[t].a.session THEN session ELSE NullSession,
                             thr[t].a, TRUE, thr[t].r.error)

\* C8: under every interleaving of run calls on one created session, each
\* call returns the status and the outputs it returns when run alone, its
\* buffers hold nothing but what its own call wrote, and no call performs
\* the first lookup of get_api (the table is cached before a session exists).
C8_ConcurrentRunsIsolated ==
    \A t \in Threads :
        /\ thr[t].pc = "get_api" => api
        /\ thr[t].pc = "done" =>
              [thr[t].r EXCEPT !.error = IF thr[t].a.error THEN @ ELSE EmptyText]
              = [RunAlone(t) EXCEPT !.error = IF thr[t].a.error THEN @ ELSE EmptyText]
        /\ thr[t].pc \in {"get_api", "input", "forward", "shape", "count", "copy"} =>
              /\ \A j \in DOMAIN thr[t].r.data : thr[t].r.data[j] = Untouched
              /\ thr[t].r.status = SPEEDREADER_ORT_OK
        /\ thr[t].pc \in {"get_api", "input", "forward", "shape"} =>
              \A i \in DOMAIN thr[t].r.shape : thr[t].r.shape[i] = Unwritten

\* one call has returned Ok while another, on a different input, is about
\* to copy its output
C8_Witness ==
    \E t, u \in Threads :
        /\ t # u
        /\ thr[t].pc = "done" /\ thr[t].r.status = SPEEDREADER_ORT_OK
        /\ thr[t].r.data = OutData(session, thr[t].a.input)
        /\ thr[u].pc = "copy"
        /\ thr[u].a.input # thr[t].a.input


(***************************************************************************)
(* get_optimal_cpus: failure leaves no partial result                      *)
(***************************************************************************)
CpuCalled == cpu.op = "get_optimal_cpus"

\* C11: with a present result parameter, an error status comes with count 0
\* and Ok with a count in 1..256; a failed topology initialisation, zero L2
\* domains and zero candidates after filtering all give the error status.
C11_AllOrNothing ==
    (CpuCalled /\ cpu.a.result) =>
      /\ cpu.r.status = SPEEDREADER_CPUINFO_ERROR => cpu.r.result.count = 0
      /\ cpu.r.status = SPEEDREADER_CPUINFO_OK =>
            cpu.r.result.count \in 1..SPEEDREADER_CPUINFO_MAX_CPUS
      /\ (~cpu.a.init_ok \/ Len(cpu.topo) = 0 \/ L2WithPrimary = {}) =>
            cpu.r.status = SPEEDREADER_CPUINFO_ERROR

\* a call fails on a result struct that an earlier call had filled
C11_Witness ==
    /\ CpuCalled /\ cpu.a.result
    /\ cpu.r.status = SPEEDREADER_CPUINFO_ERROR
    /\ cpu.r.result.cpu_indices # <<>>
    /\ cpu.r.result.count = 0


(***************************************************************************)
(* The error text buffer                                                   *)
(***************************************************************************)
\* the call just made takes an error parameter and was given a buffer
WithErrorBuffer ==
    last.op \in {"create_env", "create_session", "run"} /\ last.a.error
\* the status of the same call when the engine's diagnostic is short
StatusWithShortMessage ==
    CASE last.op = "create_env" ->
            speedreader_ort_create_env_impl(
                [last.a EXCEPT !.msglen = ShortMsg], TRUE, EmptyText).status
      [] last.op = "create_session" ->
            speedreader_ort_create_session_impl(
                [last.a EXCEPT !.msglen = ShortMsg], TRUE, EmptyText).status
      [] last.op = "run" ->
            speedreader_ort_run_impl(
                last.s, [last.a EXCEPT !.msglen = ShortMsg], TRUE, EmptyText).status
      [] OTHER -> last.r.status
\* the engine reported a failure whose diagnostic does not fit the buffer
LongDiagnostic ==
    /\ WithErrorBuffer
    /\ last.a.fail # "none"
    /\ last.a.msglen > SPEEDREADER_ORT_ERROR_BUF_SIZE - 1
    /\ \E i \in DOMAIN last.r.calls : last.r.calls[i].fn = "GetErrorMessage"

\* C12: whatever the length of the diagnostic, the text stored in the error
\* buffer is the message cut to at most capacity - 1 characters, its NUL
\* lies inside the capacity (SPEEDREADER_ORT_ERROR_BUF_SIZE bytes), and the
\* status is the one the call returns for a diagnostic that fits; the same
\* holds for write_error of speedreader_cpuinfo.c.
C12_ErrorTextTruncated ==
    /\ error.len + 1 <= SPEEDREADER_ORT_ERROR_BUF_SIZE
    /\ WithErrorBuffer =>
          /\ last.r.status = StatusWithShortMessage
          /\ last.r.status \in {SPEEDREADER_ORT_OK, SPEEDREADER_ORT_ERROR}
    /\ LongDiagnostic =>
          /\ error = OrtMessage(SPEEDREADER_ORT_ERROR_BUF_SIZE - 1)
          /\ last.r.status = SPEEDREADER_ORT_ERROR
    /\ \A l \in MsgLens \cup {0, SPEEDREADER_ORT_ERROR_BUF_SIZE - 2,
                            SPEEDREADER_ORT_ERROR_BUF_SIZE - 1,
                            SPEEDREADER_ORT_ERROR_BUF_SIZE} :
          /\ write_error(TRUE, error, OrtMessage(l))
               = OrtMessage(Min(l, SPEEDREADER_ORT_ERROR_BUF_SIZE - 1))
          /\ cpuinfo_write_error(TRUE, error, OrtMessage(l))
               = OrtMessage(Min(l, SPEEDREADER_CPUINFO_ERROR_BUF_SIZE - 1))

\* run failed in the engine with a diagnostic longer than the buffer
C12_Witness ==
    /\ LongDiagnostic
    /\ last.op = "run"
    /\ last.a.msglen = LongMsg
    /\ error.len = SPEEDREADER_ORT_ERROR_BUF_SIZE - 1


\* C13: over any sequence of calls, a call that is given the error buffer
\* and returns Ok leaves the error text empty, whatever an earlier call left
\* there; after such a call a non-empty text comes with a non-Ok status.
C13_ErrorEmptyOnOk ==
    WithErrorBuffer =>
      /\ last.r.status = SPEEDREADER_ORT_OK => error = EmptyText
      /\ error # EmptyText => last.r.status = SPEEDREADER_ORT_ERROR

\* run returned Ok on a buffer that held the message of an earlier failure
C13_Witness ==
    /\ WithErrorBuffer
    /\ last.op = "run"
    /\ last.had_text
    /\ last.r.status = SPEEDREADER_ORT_OK
    /\ error = EmptyText


(***************************************************************************)
(* run: what a successful call reports                                     *)
(***************************************************************************)
RunOk == IsRun /\ last.r.status = SPEEDREADER_ORT_OK
\* the dimensions the call stored in output_shape
ReportedDims == [i \in 1..last.r.ndim |-> last.r.shape[i]]
\* the number of elements of output_data the call wrote
WrittenCount == Cardinality({j \in DOMAIN last.r.data : last.r.data[j] # Untouched})

CandidateFrequency(i) == IF cpu.topo[i].freq = NoCore THEN 0 ELSE cpu.topo[i].freq

\* C15: the result holds Min(n, 256) of the n per-domain candidates, and
\* they are the first of the stable frequency-descending ordering of all n:
\* a candidate that is left out is slower than every returned one, or as
\* fast as it and discovered later.
C15_CapAfterSort ==
    CpuOk =>
      /\ cpu.r.result.count
           = Min(Cardinality(L2WithPrimary), SPEEDREADER_CPUINFO_MAX_CPUS)
      /\ \A i \in L2WithPrimary :
            ReturnedOf(i) = {} =>
               \A k \in 1..cpu.r.result.count :
                  LET x == cpu.r.result.cpu_indices[k]
                  IN \/ FrequencyOf(x) > CandidateFrequency(i)
                     \/ FrequencyOf(x) = CandidateFrequency(i) /\ L2Of(x) < i


(***************************************************************************)
(* run: the output data buffer on failure                                  *)
(***************************************************************************)
\* the call stayed within defined behaviour: it did not write through a
\* NULL error pointer or past the end of the caller's shape array
Defined == ~last.r.fault /\ ~last.r.oob

\* C16: whenever run returns a status other than Ok - NULL parameter, engine
\* failure at any step, rank above 16, output size mismatch - no element of
\* output_data has been modified; elements are written only by a call that
\* returns Ok, after every engine call succeeded and the size matched.
C16_NoDataOnFailure ==
    (IsRun /\ Defined) =>
      /\ last.r.status # SPEEDREADER_ORT_OK => NoDataCopied
      /\ ~NoDataCopied =>
            /\ last.r.status = SPEEDREADER_ORT_OK
            /\ \A i \in DOMAIN last.r.calls : last.r.calls[i].ok
            /\ \E i \in DOMAIN last.r.calls : last.r.calls[i].fn = "GetTensorMutableData"
            /\ SizeMatches(ElementCount, last.a.output_count)

\* the last engine call before the copy failed, on a buffer of the right
\* size: nothing was copied
C16_Witness ==
    /\ IsRun /\ Defined
    /\ last.r.status = SPEEDREADER_ORT_ERROR
    /\ last.a.fail = "GetTensorMutableData"
    /\ last.a.output_count = ElementCount
    /\ ElementCount > 0
    /\ NoDataCopied

====
